---------------------------- MODULE Spec2Model ----------------------------
(***************************************************************************)
(* Two-player backgammon: the persisted game record of one room, the       *)
(* action API of src/app/api/moves/route.ts and src/app/api/rooms/route.ts *)
(* (roll, move, endTurn, reset), and the rule functions they call.         *)
(*                                                                         *)
(* Encoding of the TypeScript values:                                      *)
(*   board       function 0..23 -> Int (sign = owner, magnitude = count)   *)
(*   bar, borne_off   functions 1..2 -> Nat (player1, player2)             *)
(*   dice        <<>> for null, <<d1, d2>> otherwise                       *)
(*   moves_left  a sequence; null and [] are both <<>> (every read in the  *)
(*               source treats them alike: route.ts:286,327)               *)
(*   winner      NoWinner for null, else 1 or 2                            *)
(*   'bar', 'off'  the tags BAR and OFF                                    *)
(* An index outside 0..23 reads `undefined` in JavaScript; arithmetic on   *)
(* it gives NaN and every comparison with NaN is false.                    *)
(***************************************************************************)
EXTENDS Integers, Sequences, FiniteSets, TLC

\* ------------------------------------------------------------------ bounds
\* accepted state-changing requests explored in one behaviour
MaxSteps == 5
\* steps charged for the opening layout (a new game, a reset), whose turns
\* branch far wider than those of the mid-game starting points
OpeningCost == 1
\* cap of the per-turn roll counter (a history variable)
MaxRollCount == 2
\* accepted state-changing requests in one behaviour of the two pages
MaxPageSteps == 4
\* UPDATE payloads a page may have pending
MaxLag == 1
\* accepted state-changing requests in one behaviour of interleaved handlers
MaxRaceSteps == 4
\* handlers that have read the row and are overtaken before they write
MaxInFlight == 1
\* writes in one behaviour of the notification channel
MaxWrites == 2
\* UPDATE payloads on their way to one page at a time
MaxInTransit == 2

\* --------------------------------------------------------------- constants
NoWinner == 0
BAR == 100
OFF == 200
NumPoints == 24
NumCheckers == 15
DieFaces == 6

Points == 0..(NumPoints - 1)
Players == {1, 2}
Die == 1..DieFaces

Other(p) == IF p = 1 THEN 2 ELSE 1
Sign(p) == IF p = 1 THEN 1 ELSE -1
InRange(i) == i \in Points

\* ------------------------------------------------------- sequence helpers
\* Array.prototype.indexOf: the first index holding v, 0 when there is none
\* (JavaScript's -1; sequences are 1-based here)
IndexOf(s, v) ==
  IF \E i \in 1..Len(s) : s[i] = v
    THEN CHOOSE i \in 1..Len(s) : s[i] = v /\ \A j \in 1..(i - 1) : s[j] # v
    ELSE 0

\* Array.prototype.splice(i, 1) on a copy
Splice(s, i) == [j \in 1..(Len(s) - 1) |-> IF j < i THEN s[j] ELSE s[j + 1]]

\* ---------------------------------------------------------- rule functions
getInitialBoard ==
  [i \in Points |->
     CASE i = 0 -> 2 [] i = 11 -> 5 [] i = 16 -> 3 [] i = 18 -> 5
       [] i = 23 -> -2 [] i = 12 -> -5 [] i = 7 -> -3 [] i = 5 -> -5
       [] OTHER -> 0]

getMovesFromDice(d) ==
  IF d[1] = d[2] THEN <<d[1], d[1], d[1], d[1]>> ELSE d

canBearOff(board, bar, player) ==
  IF bar[player] > 0 THEN FALSE
  ELSE IF player = 1
    THEN \A i \in 0..17 : ~(board[i] > 0)
    ELSE \A i \in 6..23 : ~(board[i] < 0)

\* mutant of getFurthestChecker: the checker nearest to bearing off
getFurthestChecker_Nearest(board, player) ==
  IF player = 1
    THEN IF \E i \in Points : board[i] > 0
           THEN CHOOSE i \in Points : board[i] > 0 /\ \A j \in (i + 1)..23 : ~(board[j] > 0)
           ELSE -1
    ELSE IF \E i \in Points : board[i] < 0
           THEN CHOOSE i \in Points : board[i] < 0 /\ \A j \in 0..(i - 1) : ~(board[j] < 0)
           ELSE -1

getFurthestChecker(board, player) ==
  IF player = 1
    THEN IF \E i \in Points : board[i] > 0
           THEN CHOOSE i \in Points : board[i] > 0 /\ \A j \in 0..(i - 1) : ~(board[j] > 0)
           ELSE -1
    ELSE IF \E i \in Points : board[i] < 0
           THEN CHOOSE i \in Points : board[i] < 0 /\ \A j \in (i + 1)..23 : ~(board[j] < 0)
           ELSE -1

\* mutant of isValidMove: a checker on the bar does not stop other moves
isValidMove_NoBarPriority(board, bar, borneOff, from, to, dieValue, player) ==
  LET playerSign == Sign(player)
      barCount == bar[player]
  IN
  IF from = BAR THEN
    IF barCount = 0 THEN FALSE
    ELSE LET entryPoint == IF player = 1 THEN dieValue - 1 ELSE 24 - dieValue IN
         IF InRange(entryPoint) /\ board[entryPoint] * playerSign < -1 THEN FALSE
         ELSE to = entryPoint
  ELSE IF InRange(from) /\ board[from] * playerSign <= 0 THEN FALSE
  ELSE
    LET dest == IF player = 1 THEN from + dieValue ELSE from - dieValue IN
    IF to = OFF THEN
      IF ~canBearOff(board, bar, player) THEN FALSE
      ELSE IF player = 1 THEN
        IF dest = 24 THEN TRUE
        ELSE IF dest > 24 THEN getFurthestChecker(board, player) >= from
        ELSE FALSE
      ELSE
        IF dest = -1 THEN TRUE
        ELSE IF dest < -1 THEN getFurthestChecker(board, player) <= from
        ELSE FALSE
    ELSE IF dest < 0 \/ dest > 23 THEN FALSE
    ELSE IF board[dest] * playerSign < -1 THEN FALSE
    ELSE to = dest

isValidMove(board, bar, borneOff, from, to, dieValue, player) ==
  LET playerSign == Sign(player)
      barCount == bar[player]
  IN
  IF barCount > 0 /\ from # BAR THEN FALSE
  ELSE IF from = BAR THEN
    IF barCount = 0 THEN FALSE
    ELSE LET entryPoint == IF player = 1 THEN dieValue - 1 ELSE 24 - dieValue IN
         IF InRange(entryPoint) /\ board[entryPoint] * playerSign < -1 THEN FALSE
         ELSE to = entryPoint
  ELSE IF InRange(from) /\ board[from] * playerSign <= 0 THEN FALSE
  ELSE
    LET dest == IF player = 1 THEN from + dieValue ELSE from - dieValue IN
    IF to = OFF THEN
      IF ~canBearOff(board, bar, player) THEN FALSE
      ELSE IF player = 1 THEN
        IF dest = 24 THEN TRUE
        ELSE IF dest > 24 THEN getFurthestChecker(board, player) >= from
        ELSE FALSE
      ELSE
        IF dest = -1 THEN TRUE
        ELSE IF dest < -1 THEN getFurthestChecker(board, player) <= from
        ELSE FALSE
    ELSE IF dest < 0 \/ dest > 23 THEN FALSE
    ELSE IF board[dest] * playerSign < -1 THEN FALSE
    ELSE to = dest

\* mutant of executeMove: a single opposing checker is not sent to the bar
executeMove_NoHit(board, bar, borneOff, from, to, player) ==
  LET playerSign == Sign(player)
      bar1 == IF from = BAR THEN [bar EXCEPT ![player] = @ - 1] ELSE bar
      board1 == IF from # BAR /\ InRange(from)
                  THEN [board EXCEPT ![from] = @ - playerSign]
                  ELSE board
      hit == FALSE
      board2 == IF hit THEN [board1 EXCEPT ![to] = 0] ELSE board1
  IN
  [ board |-> IF to # OFF /\ InRange(to)
                THEN [board2 EXCEPT ![to] = @ + playerSign]
                ELSE board2,
    bar |-> IF hit THEN [bar1 EXCEPT ![Other(player)] = @ + 1] ELSE bar1,
    borneOff |-> IF to = OFF THEN [borneOff EXCEPT ![player] = @ + 1] ELSE borneOff ]

\* the result record {board, bar, borneOff}; a write to an index outside
\* 0..23 adds a property the persisted array does not keep
executeMove(board, bar, borneOff, from, to, player) ==
  LET playerSign == Sign(player)
      bar1 == IF from = BAR THEN [bar EXCEPT ![player] = @ - 1] ELSE bar
      board1 == IF from # BAR /\ InRange(from)
                  THEN [board EXCEPT ![from] = @ - playerSign]
                  ELSE board
      hit == to # OFF /\ InRange(to) /\ board1[to] * playerSign = -1
      board2 == IF hit THEN [board1 EXCEPT ![to] = 0] ELSE board1
  IN
  [ board |-> IF to # OFF /\ InRange(to)
                THEN [board2 EXCEPT ![to] = @ + playerSign]
                ELSE board2,
    bar |-> IF hit THEN [bar1 EXCEPT ![Other(player)] = @ + 1] ELSE bar1,
    borneOff |-> IF to = OFF THEN [borneOff EXCEPT ![player] = @ + 1] ELSE borneOff ]

\* mutant of hasValidMoves: the bearing-off check is left out
hasValidMoves_NoBearOff(board, bar, borneOff, movesLeft, player) ==
  LET playerSign == Sign(player)
      barCount == bar[player]
  IN
  IF Len(movesLeft) = 0 THEN FALSE
  ELSE \E k \in 1..Len(movesLeft) :
    LET die == movesLeft[k] IN
    IF barCount > 0 THEN
      LET entryPoint == IF player = 1 THEN die - 1 ELSE 24 - die IN
      InRange(entryPoint) /\ board[entryPoint] * playerSign >= -1
    ELSE \E i \in Points :
      /\ board[i] * playerSign > 0
      /\ LET dest == IF player = 1 THEN i + die ELSE i - die IN
         dest >= 0 /\ dest <= 23 /\ board[dest] * playerSign >= -1

hasValidMoves(board, bar, borneOff, movesLeft, player) ==
  LET playerSign == Sign(player)
      barCount == bar[player]
  IN
  IF Len(movesLeft) = 0 THEN FALSE
  ELSE \E k \in 1..Len(movesLeft) :
    LET die == movesLeft[k] IN
    IF barCount > 0 THEN
      LET entryPoint == IF player = 1 THEN die - 1 ELSE 24 - die IN
      InRange(entryPoint) /\ board[entryPoint] * playerSign >= -1
    ELSE \E i \in Points :
      /\ board[i] * playerSign > 0
      /\ LET dest == IF player = 1 THEN i + die ELSE i - die IN
         \/ (dest >= 0 /\ dest <= 23 /\ board[dest] * playerSign >= -1)
         \/ /\ canBearOff(board, bar, player)
            /\ \/ (player = 1 /\ i >= 18 /\ i + die >= 24
                   /\ (i + die = 24 \/ getFurthestChecker(board, player) >= i))
               \/ (player = 2 /\ i <= 5 /\ i - die <= -1
                   /\ (i - die = -1 \/ getFurthestChecker(board, player) <= i))

\* mutant of checkWinner: the threshold is one checker short
checkWinner_OffByOne(borneOff) ==
  IF borneOff[1] >= 14 THEN 1
  ELSE IF borneOff[2] >= 14 THEN 2
  ELSE NoWinner

checkWinner(borneOff) ==
  IF borneOff[1] = 15 THEN 1
  ELSE IF borneOff[2] = 15 THEN 2
  ELSE NoWinner

\* ------------------------------------------------------ persisted record
VARIABLES
  db,      \* the room's row of backgammon_games
  last,    \* history: the action of the last request that wrote the row
  rolls,   \* history: rolls accepted since Turn last changed or a reset
  steps,   \* accepted state-changing requests so far (bounds the exploration)
  cl,      \* per player: the state of that player's page (page.tsx)
  inbox,   \* per player: realtime UPDATE payloads not yet handled by the page
  hs,      \* route handlers that have read the row and not yet written
  raced,   \* history: some handler wrote after the row it read had changed
  wire     \* history, per player: seqs, the number of the write behind each
           \* payload of inbox, and seen, the numbers of the writes whose
           \* payload the page's handler has run on

clientVars == <<cl, inbox, wire>>
raceVars == <<hs, raced>>
vars == <<db, last, rolls, steps, cl, inbox, hs, raced, wire>>

Count(board, p) ==
  LET RECURSIVE Sum(_)
      Sum(i) == IF i > 23 THEN 0
                ELSE (IF board[i] * Sign(p) > 0 THEN board[i] * Sign(p) ELSE 0) + Sum(i + 1)
  IN Sum(0)

\* rooms/route.ts "create": the inserted row
NewGame ==
  [ board |-> getInitialBoard,
    bar |-> [p \in Players |-> 0],
    borne_off |-> [p \in Players |-> 0],
    dice |-> <<>>,
    moves_left |-> <<>>,
    current_turn |-> 1,
    winner |-> NoWinner ]

\* Mid-game rows a game reaches by play, used as further starting points.
\* A bear-off race: each player has borne off 13 and has two checkers at home.
RaceGame ==
  [ NewGame EXCEPT
      !.board = [i \in Points |->
                   CASE i = 20 -> 1 [] i = 22 -> 1 [] i = 1 -> -1 [] i = 3 -> -1
                     [] OTHER -> 0],
      !.borne_off = [p \in Players |-> 13] ]

\* Player 1 has a checker on the bar; Player 2 holds points 0..4 and has a
\* blot on point 5 and one checker still outside its home quadrant.
BarGame ==
  [ NewGame EXCEPT
      !.board = [i \in Points |->
                   CASE i = 0 -> -3 [] i = 1 -> -3 [] i = 2 -> -3 [] i = 3 -> -2
                     [] i = 4 -> -2 [] i = 5 -> -1 [] i = 12 -> -1
                     [] i = 18 -> 5 [] i = 19 -> 5 [] i = 20 -> 4
                     [] OTHER -> 0],
      !.bar = [p \in Players |-> IF p = 1 THEN 1 ELSE 0] ]

\* As BarGame, with two checkers of Player 1 on the bar and point 5 empty:
\* after one checker has entered with a 6 the other can be left without entry.
BarTwoGame ==
  [ NewGame EXCEPT
      !.board = [i \in Points |->
                   CASE i = 0 -> -3 [] i = 1 -> -3 [] i = 2 -> -3 [] i = 3 -> -3
                     [] i = 4 -> -2 [] i = 12 -> -1
                     [] i = 18 -> 5 [] i = 19 -> 5 [] i = 20 -> 3
                     [] OTHER -> 0],
      !.bar = [p \in Players |-> IF p = 1 THEN 2 ELSE 0] ]

\* The race with Player 1 down to its last checker.
LastGame ==
  [ RaceGame EXCEPT
      !.board = [i \in Points |->
                   CASE i = 23 -> 1 [] i = 1 -> -1 [] i = 3 -> -1 [] OTHER -> 0],
      !.borne_off = [p \in Players |-> IF p = 1 THEN 14 ELSE 13] ]

\* The race with Player 2 on turn and down to its last checker.
LastGameTwo ==
  [ RaceGame EXCEPT
      !.board = [i \in Points |->
                   CASE i = 0 -> -1 [] i = 20 -> 1 [] i = 22 -> 1 [] OTHER -> 0],
      !.borne_off = [p \in Players |-> IF p = 2 THEN 14 ELSE 13],
      !.current_turn = 2 ]

\* ------------------------------------------------------------ action API
NotYourTurn == "Not your turn"
GameOver == "Game is over"
AlreadyRolled == "Already rolled - make your moves"
RollFirst == "Roll dice first"
InvalidMove == "Invalid move"
DieUnavailable == "Die value not available"
InvalidAction == "Invalid action"
Ok == "ok"

Errors == {NotYourTurn, GameOver, AlreadyRolled, RollFirst, InvalidMove,
           DieUnavailable, InvalidAction}

\* supabase .update(updateData): the fields named in the update replace the
\* row's, the others stay
Merge(row, updateData) ==
  [f \in DOMAIN row |-> IF f \in DOMAIN updateData THEN updateData[f] ELSE row[f]]

Reject(e) == [error |-> e, update |-> <<>>]
Accept(u) == [error |-> Ok, update |-> u]

\* mutant of RollAction: a roll without a legal move keeps the turn
RollAction_NoPass(gameState, player, d) ==
  IF gameState.dice # <<>> /\ Len(gameState.moves_left) > 0
    THEN Reject(AlreadyRolled)
  ELSE
    LET movesLeft == getMovesFromDice(d)
        canMove == hasValidMoves(gameState.board, gameState.bar, gameState.borne_off,
                                 movesLeft, player)
    IN IF ~canMove
         THEN Accept([dice |-> d, moves_left |-> <<>>])
         ELSE Accept([dice |-> d, moves_left |-> movesLeft])

\* mutant of RollAction: refused whenever the row has dice
RollAction_DicePresent(gameState, player, d) ==
  IF gameState.dice # <<>>
    THEN Reject(AlreadyRolled)
  ELSE
    LET movesLeft == getMovesFromDice(d)
        canMove == hasValidMoves(gameState.board, gameState.bar, gameState.borne_off,
                                 movesLeft, player)
    IN IF ~canMove
         THEN Accept([dice |-> d, moves_left |-> <<>>, current_turn |-> Other(player)])
         ELSE Accept([dice |-> d, moves_left |-> movesLeft])

\* action "roll" after the turn and winner checks; d is rollDice()'s result
RollAction(gameState, player, d) ==
  IF gameState.dice # <<>> /\ Len(gameState.moves_left) > 0
    THEN Reject(AlreadyRolled)
  ELSE
    LET movesLeft == getMovesFromDice(d)
        canMove == hasValidMoves(gameState.board, gameState.bar, gameState.borne_off,
                                 movesLeft, player)
    IN IF ~canMove
         THEN Accept([dice |-> d, moves_left |-> <<>>, current_turn |-> Other(player)])
         ELSE Accept([dice |-> d, moves_left |-> movesLeft])

\* mutant of MoveAction: the token is taken before it is looked up, so a
\* request refused for its die has already written the row
MoveAction_WriteFirst(gameState, player, from, to, dieValue) ==
  IF gameState.dice = <<>> \/ Len(gameState.moves_left) = 0
    THEN Reject(RollFirst)
  ELSE IF ~isValidMove(gameState.board, gameState.bar, gameState.borne_off,
                       from, to, dieValue, player)
    THEN Reject(InvalidMove)
  ELSE
    LET dieIndex == IndexOf(gameState.moves_left, dieValue)
        r == executeMove(gameState.board, gameState.bar, gameState.borne_off,
                         from, to, player)
    IN
    IF dieIndex = 0
      THEN [error |-> DieUnavailable,
            update |-> [board |-> r.board, bar |-> r.bar, borne_off |-> r.borneOff]]
    ELSE Accept([ board |-> r.board,
                  bar |-> r.bar,
                  borne_off |-> r.borneOff,
                  moves_left |-> Splice(gameState.moves_left, dieIndex),
                  winner |-> checkWinner(r.borneOff) ])

\* mutant of MoveAction: the die used stays in moves_left
MoveAction_KeepsToken(gameState, player, from, to, dieValue) ==
  IF gameState.dice = <<>> \/ Len(gameState.moves_left) = 0
    THEN Reject(RollFirst)
  ELSE IF ~isValidMove(gameState.board, gameState.bar, gameState.borne_off,
                       from, to, dieValue, player)
    THEN Reject(InvalidMove)
  ELSE
    LET dieIndex == IndexOf(gameState.moves_left, dieValue) IN
    IF dieIndex = 0 THEN Reject(DieUnavailable)
    ELSE
      LET r == executeMove(gameState.board, gameState.bar, gameState.borne_off,
                           from, to, player)
      IN Accept([ board |-> r.board,
                  bar |-> r.bar,
                  borne_off |-> r.borneOff,
                  moves_left |-> gameState.moves_left,
                  winner |-> checkWinner(r.borneOff) ])

\* mutant of MoveAction: the update also passes the turn
MoveAction_PassesTurn(gameState, player, from, to, dieValue) ==
  IF gameState.dice = <<>> \/ Len(gameState.moves_left) = 0
    THEN Reject(RollFirst)
  ELSE IF ~isValidMove(gameState.board, gameState.bar, gameState.borne_off,
                       from, to, dieValue, player)
    THEN Reject(InvalidMove)
  ELSE
    LET dieIndex == IndexOf(gameState.moves_left, dieValue) IN
    IF dieIndex = 0 THEN Reject(DieUnavailable)
    ELSE
      LET r == executeMove(gameState.board, gameState.bar, gameState.borne_off,
                           from, to, player)
      IN Accept([ board |-> r.board,
                  bar |-> r.bar,
                  borne_off |-> r.borneOff,
                  moves_left |-> Splice(gameState.moves_left, dieIndex),
                  winner |-> checkWinner(r.borneOff),
                  current_turn |-> Other(player) ])

\* action "move" after the turn and winner checks
MoveAction(gameState, player, from, to, dieValue) ==
  IF gameState.dice = <<>> \/ Len(gameState.moves_left) = 0
    THEN Reject(RollFirst)
  ELSE IF ~isValidMove(gameState.board, gameState.bar, gameState.borne_off,
                       from, to, dieValue, player)
    THEN Reject(InvalidMove)
  ELSE
    LET dieIndex == IndexOf(gameState.moves_left, dieValue) IN
    IF dieIndex = 0 THEN Reject(DieUnavailable)
    ELSE
      LET r == executeMove(gameState.board, gameState.bar, gameState.borne_off,
                           from, to, player)
      IN Accept([ board |-> r.board,
                  bar |-> r.bar,
                  borne_off |-> r.borneOff,
                  moves_left |-> Splice(gameState.moves_left, dieIndex),
                  winner |-> checkWinner(r.borneOff) ])

\* mutant of EndTurnAction: the update leaves moves_left as it is
EndTurnAction_KeepsTokens(gameState, player) ==
  Accept([current_turn |-> Other(player), dice |-> <<>>])

\* action "endTurn" after the turn and winner checks
EndTurnAction(gameState, player) ==
  Accept([current_turn |-> Other(player), dice |-> <<>>, moves_left |-> <<>>])

\* mutant of POST: no winner check
POST_NoWinnerCheck(gameState, req, d) ==
  IF gameState.current_turn # req.player THEN Reject(NotYourTurn)
  ELSE IF req.action = "roll" THEN RollAction(gameState, req.player, d)
  ELSE IF req.action = "move"
    THEN MoveAction(gameState, req.player, req.from, req.to, req.dieValue)
  ELSE IF req.action = "endTurn" THEN EndTurnAction(gameState, req.player)
  ELSE Reject(InvalidAction)

\* mutant of POST: the winner check comes before the turn check
POST_WinnerFirst(gameState, req, d) ==
  IF gameState.winner # NoWinner THEN Reject(GameOver)
  ELSE IF gameState.current_turn # req.player THEN Reject(NotYourTurn)
  ELSE IF req.action = "roll" THEN RollAction(gameState, req.player, d)
  ELSE IF req.action = "move"
    THEN MoveAction(gameState, req.player, req.from, req.to, req.dieValue)
  ELSE IF req.action = "endTurn" THEN EndTurnAction(gameState, req.player)
  ELSE Reject(InvalidAction)

\* moves/route.ts POST on the row it read; req = [action, player, from, to,
\* dieValue], d = the dice a roll would draw
POST(gameState, req, d) ==
  IF gameState.current_turn # req.player THEN Reject(NotYourTurn)
  ELSE IF gameState.winner # NoWinner THEN Reject(GameOver)
  ELSE IF req.action = "roll" THEN RollAction(gameState, req.player, d)
  ELSE IF req.action = "move"
    THEN MoveAction(gameState, req.player, req.from, req.to, req.dieValue)
  ELSE IF req.action = "endTurn" THEN EndTurnAction(gameState, req.player)
  ELSE Reject(InvalidAction)

\* mutant of the reset update: the moves_left column is left as it is
ResetUpdate_KeepsTokens(nextStarter) ==
  [ board |-> getInitialBoard,
    bar |-> [p \in Players |-> 0],
    borne_off |-> [p \in Players |-> 0],
    dice |-> <<>>,
    current_turn |-> IF nextStarter = 0 THEN 1 ELSE nextStarter,
    winner |-> NoWinner ]

\* mutant of the reset update: the winner column is left as it is
ResetUpdate_KeepsWinner(nextStarter) ==
  [ board |-> getInitialBoard,
    bar |-> [p \in Players |-> 0],
    borne_off |-> [p \in Players |-> 0],
    dice |-> <<>>,
    moves_left |-> <<>>,
    current_turn |-> IF nextStarter = 0 THEN 1 ELSE nextStarter ]

\* rooms/route.ts POST, action "reset": nextStarter || 1 (0 stands for an
\* absent nextStarter)
ResetUpdate(nextStarter) ==
  [ board |-> getInitialBoard,
    bar |-> [p \in Players |-> 0],
    borne_off |-> [p \in Players |-> 0],
    dice |-> <<>>,
    moves_left |-> <<>>,
    current_turn |-> IF nextStarter = 0 THEN 1 ELSE nextStarter,
    winner |-> NoWinner ]

\* ------------------------------------------------------- request inputs
ToValues == Points \cup {OFF}
DicePairs == {<<a, b>> : a \in Die, b \in Die}

\* isValidMove compares `to` with 'off', with the entry point and with the
\* point the die leads to, and with nothing else: these destinations and one
\* other point (the origin itself) stand for every destination
ToChoices(p, f, dv) ==
  (IF f = BAR THEN {OFF, IF p = 1 THEN dv - 1 ELSE 24 - dv}
   ELSE {OFF, f, IF p = 1 THEN f + dv ELSE f - dv}) \cap ToValues

Req(a, p, f, t, dv) == [action |-> a, player |-> p, from |-> f, to |-> t, dieValue |-> dv]

Min(a, b) == IF a < b THEN a ELSE b

Range(s) == {s[i] : i \in 1..Len(s)}

\* history bookkeeping of one handled request
NextRolls(old, new, accepted) ==
  IF new.current_turn # old.current_turn THEN 0
  ELSE IF accepted THEN Min(rolls + 1, MaxRollCount)
  ELSE rolls

\* --------------------------------------------- requests handled atomically
\* The response is what POST returns; the row is what the update leaves.
\* A request that changes the row counts against MaxSteps.
Budget(r) == r.error = Ok => steps < MaxSteps
Charge(r) == IF r.error = Ok THEN steps + 1 ELSE steps
Mark(r, a) == IF r.error = Ok THEN a ELSE last

Roll(p) ==
  \E d \in DicePairs :
    LET r == POST(db, Req("roll", p, 0, 0, 0), d) IN
    /\ Budget(r)
    /\ r.error = Ok => rolls < MaxRollCount
    /\ db' = Merge(db, r.update)
    /\ last' = Mark(r, "roll")
    /\ rolls' = NextRolls(db, db', r.error = Ok)
    /\ steps' = Charge(r)
    /\ UNCHANGED <<clientVars, raceVars>>

\* The inputs of a move request.  Origins: the points holding a checker of
\* the player, the bar, a number below the track, and the first point that
\* holds none of the player's checkers (such an origin is refused at
\* route.ts:110 whichever point it is).  Dice: the tokens of moves_left, and
\* 0 for a value that is no token (refused whatever it is, route.ts:337-340).
FromChoices(g, p) ==
  {i \in Points : g.board[i] * Sign(p) > 0} \cup {BAR, -1}
    \cup {i \in Points : /\ g.board[i] * Sign(p) <= 0
                         /\ \A j \in 0..(i - 1) : g.board[j] * Sign(p) > 0}

DieChoices(g) == Range(g.moves_left) \cup {0}

MoveChoices(g, p) ==
  {Req("move", p, x[1], x[3], x[2]) :
     x \in {y \in FromChoices(g, p) \X DieChoices(g) \X ToValues :
              y[3] \in ToChoices(p, y[1], y[2])}}

\* the requests the actions below draw from, for the row g
ReqChoices(g) ==
  UNION {MoveChoices(g, p) \cup {Req(a, p, 0, 0, 0) : a \in {"roll", "endTurn", "unknown"}}
         : p \in Players}

\* the responses POST can give to a request (a roll draws any dice)
Results(g, req) ==
  {POST(g, req, d) : d \in (IF req.action = "roll" THEN DicePairs ELSE {<<>>})}

Move(p) ==
  \E f \in FromChoices(db, p), dv \in DieChoices(db) :
    \E t \in ToChoices(p, f, dv) :
      LET r == POST(db, Req("move", p, f, t, dv), <<>>) IN
      /\ Budget(r)
      /\ db' = Merge(db, r.update)
      /\ last' = Mark(r, "move")
      /\ steps' = Charge(r)
      /\ UNCHANGED <<rolls, clientVars, raceVars>>

EndTurn(p) ==
  LET r == POST(db, Req("endTurn", p, 0, 0, 0), <<>>) IN
  /\ Budget(r)
  /\ db' = Merge(db, r.update)
  /\ last' = Mark(r, "endTurn")
  /\ rolls' = NextRolls(db, db', FALSE)
  /\ steps' = Charge(r)
  /\ UNCHANGED <<clientVars, raceVars>>

Unknown(p) ==
  LET r == POST(db, Req("unknown", p, 0, 0, 0), <<>>) IN
  /\ db' = Merge(db, r.update)
  /\ last' = Mark(r, "unknown")
  /\ UNCHANGED <<rolls, steps, clientVars, raceVars>>

Reset ==
  \E nextStarter \in 0..2 :
    /\ steps + OpeningCost < MaxSteps
    /\ db' = Merge(db, ResetUpdate(nextStarter))
    /\ last' = "reset"
    /\ rolls' = 0
    /\ steps' = steps + OpeningCost + 1
    /\ UNCHANGED <<clientVars, raceVars>>

\* ------------------------------------------------ page.tsx: the local rules
\* mutant of hasAnyValidMoves: the bearing-off check is left out
hasAnyValidMoves_NoBearOff(board, bar, borneOff, movesLeft, player) ==
  LET playerSign == Sign(player)
      barCount == bar[player]
      canBearOffNow == IF player = 1 THEN \A j \in 0..17 : ~(board[j] > 0)
                       ELSE \A j \in 6..23 : ~(board[j] < 0)
      furthest == IF player = 1
                    THEN IF \E j \in Points : board[j] > 0
                           THEN CHOOSE j \in Points :
                                  board[j] > 0 /\ \A k \in 0..(j - 1) : ~(board[k] > 0)
                           ELSE -1
                    ELSE IF \E j \in Points : board[j] < 0
                           THEN CHOOSE j \in Points :
                                  board[j] < 0 /\ \A k \in (j + 1)..23 : ~(board[k] < 0)
                           ELSE -1
  IN
  IF Len(movesLeft) = 0 THEN FALSE
  ELSE IF barCount > 0 THEN
    \E n \in 1..Len(movesLeft) :
      LET entryPoint == IF player = 1 THEN movesLeft[n] - 1 ELSE 24 - movesLeft[n] IN
      entryPoint >= 0 /\ entryPoint <= 23 /\ board[entryPoint] * playerSign >= -1
  ELSE
    \E i \in Points, n \in 1..Len(movesLeft) :
      LET die == movesLeft[n]
          dest == IF player = 1 THEN i + die ELSE i - die
      IN
      /\ board[i] * playerSign > 0
      /\ dest >= 0 /\ dest <= 23 /\ board[dest] * playerSign >= -1

\* hasAnyValidMoves of the page
hasAnyValidMoves(board, bar, borneOff, movesLeft, player) ==
  LET playerSign == Sign(player)
      barCount == bar[player]
      canBearOffNow == IF player = 1 THEN \A j \in 0..17 : ~(board[j] > 0)
                       ELSE \A j \in 6..23 : ~(board[j] < 0)
      furthest == IF player = 1
                    THEN IF \E j \in Points : board[j] > 0
                           THEN CHOOSE j \in Points :
                                  board[j] > 0 /\ \A k \in 0..(j - 1) : ~(board[k] > 0)
                           ELSE -1
                    ELSE IF \E j \in Points : board[j] < 0
                           THEN CHOOSE j \in Points :
                                  board[j] < 0 /\ \A k \in (j + 1)..23 : ~(board[k] < 0)
                           ELSE -1
  IN
  IF Len(movesLeft) = 0 THEN FALSE
  ELSE IF barCount > 0 THEN
    \E n \in 1..Len(movesLeft) :
      LET entryPoint == IF player = 1 THEN movesLeft[n] - 1 ELSE 24 - movesLeft[n] IN
      entryPoint >= 0 /\ entryPoint <= 23 /\ board[entryPoint] * playerSign >= -1
  ELSE
    \E i \in Points, n \in 1..Len(movesLeft) :
      LET die == movesLeft[n]
          dest == IF player = 1 THEN i + die ELSE i - die
      IN
      /\ board[i] * playerSign > 0
      /\ \/ (dest >= 0 /\ dest <= 23 /\ board[dest] * playerSign >= -1)
         \/ /\ canBearOffNow
            /\ \/ (player = 1 /\ i >= 18 /\ i + die >= 24
                   /\ (i + die = 24 \/ furthest >= i))
               \/ (player = 2 /\ i <= 5 /\ i - die <= -1
                   /\ (i - die = -1 \/ furthest <= i))

\* mutant of calculateValidMoves: a point with one opposing checker is not
\* offered as a destination
calculateValidMoves_BlocksBlot(from, board, bar, borneOff, movesLeft, player) ==
  LET playerSign == Sign(player)
      barCount == bar[player]
      canBearOffNow == /\ ~(barCount > 0)
                       /\ IF player = 1 THEN \A i \in 0..17 : ~(board[i] > 0)
                          ELSE \A i \in 6..23 : ~(board[i] < 0)
      furthest == IF player = 1
                    THEN IF \E i \in Points : board[i] > 0
                           THEN CHOOSE i \in Points :
                                  board[i] > 0 /\ \A k \in 0..(i - 1) : ~(board[k] > 0)
                           ELSE -1
                    ELSE IF \E i \in Points : board[i] < 0
                           THEN CHOOSE i \in Points :
                                  board[i] < 0 /\ \A k \in (i + 1)..23 : ~(board[k] < 0)
                           ELSE -1
      Offered(die) ==
        IF from = BAR THEN
          LET entryPoint == IF player = 1 THEN die - 1 ELSE 24 - die IN
          IF entryPoint >= 0 /\ entryPoint <= 23 /\ board[entryPoint] * playerSign >= -1
            THEN {entryPoint} ELSE {}
        ELSE
          LET dest == IF player = 1 THEN from + die ELSE from - die IN
          (IF dest >= 0 /\ dest <= 23 /\ board[dest] * playerSign >= 0
             THEN {dest} ELSE {})
          \cup
          (IF /\ canBearOffNow
              /\ \/ (player = 1 /\ from >= 18 /\ dest >= 24
                     /\ (dest = 24 \/ furthest >= from))
                 \/ (player = 2 /\ from <= 5 /\ dest <= -1
                     /\ (dest = -1 \/ furthest <= from))
             THEN {OFF} ELSE {})
  IN
  IF barCount > 0 /\ from # BAR THEN {}
  ELSE UNION {Offered(movesLeft[n]) : n \in 1..Len(movesLeft)}

\* calculateValidMoves: the destinations offered for the selected origin
\* (the list is only ever tested with includes, so it is a set here)
calculateValidMoves(from, board, bar, borneOff, movesLeft, player) ==
  LET playerSign == Sign(player)
      barCount == bar[player]
      canBearOffNow == /\ ~(barCount > 0)
                       /\ IF player = 1 THEN \A i \in 0..17 : ~(board[i] > 0)
                          ELSE \A i \in 6..23 : ~(board[i] < 0)
      furthest == IF player = 1
                    THEN IF \E i \in Points : board[i] > 0
                           THEN CHOOSE i \in Points :
                                  board[i] > 0 /\ \A k \in 0..(i - 1) : ~(board[k] > 0)
                           ELSE -1
                    ELSE IF \E i \in Points : board[i] < 0
                           THEN CHOOSE i \in Points :
                                  board[i] < 0 /\ \A k \in (i + 1)..23 : ~(board[k] < 0)
                           ELSE -1
      Offered(die) ==
        IF from = BAR THEN
          LET entryPoint == IF player = 1 THEN die - 1 ELSE 24 - die IN
          IF entryPoint >= 0 /\ entryPoint <= 23 /\ board[entryPoint] * playerSign >= -1
            THEN {entryPoint} ELSE {}
        ELSE
          LET dest == IF player = 1 THEN from + die ELSE from - die IN
          (IF dest >= 0 /\ dest <= 23 /\ board[dest] * playerSign >= -1
             THEN {dest} ELSE {})
          \cup
          (IF /\ canBearOffNow
              /\ \/ (player = 1 /\ from >= 18 /\ dest >= 24
                     /\ (dest = 24 \/ furthest >= from))
                 \/ (player = 2 /\ from <= 5 /\ dest <= -1
                     /\ (dest = -1 \/ furthest <= from))
             THEN {OFF} ELSE {})
  IN
  IF barCount > 0 /\ from # BAR THEN {}
  ELSE UNION {Offered(movesLeft[n]) : n \in 1..Len(movesLeft)}

\* `for (const die of list) if (...) { dieValue = die; break; }`: the first
\* element that is one of `matching`, 0 (null) when there is none
FirstDie(list, matching) ==
  IF \E n \in 1..Len(list) : list[n] \in matching
    THEN list[CHOOSE n \in 1..Len(list) :
                list[n] \in matching /\ \A m \in 1..(n - 1) : list[m] \notin matching]
    ELSE 0

\* handleMove, lines 706-742: the die recorded with a pending move
\* (0 stands for null)
handleMoveDie(from, to, currentMovesLeft, playerNumber) ==
  LET Dest(die) == IF playerNumber = 1 THEN from + die ELSE from - die
      overshooting == {die \in Range(currentMovesLeft) :
                         \/ (playerNumber = 1 /\ Dest(die) >= 24)
                         \/ (playerNumber = 2 /\ Dest(die) <= -1)}
      leading == IF from = BAR
                   THEN {die \in Range(currentMovesLeft) :
                           (IF playerNumber = 1 THEN die - 1 ELSE 24 - die) = to}
                 ELSE IF to = OFF THEN overshooting
                 ELSE {die \in Range(currentMovesLeft) : Dest(die) = to}
      dieValue == IF from = BAR THEN (IF playerNumber = 1 THEN to + 1 ELSE 24 - to)
                  ELSE IF to = OFF THEN FirstDie(currentMovesLeft, overshooting)
                  ELSE IF playerNumber = 1 THEN to - from ELSE from - to
  IN
  IF dieValue = 0 \/ IndexOf(currentMovesLeft, dieValue) = 0
    THEN IF leading # {} THEN FirstDie(currentMovesLeft, leading) ELSE dieValue
    ELSE dieValue

\* The file holds a second, earlier revision of the page (lines 1362-2231,
\* moves sent one by one from game.moves_left). Its calculateValidMoves and
\* the die resolution of its handleMove differ from the first in the bar
\* entry point only.
calculateValidMoves2(from, board, bar, borneOff, movesLeft, player) ==
  LET playerSign == Sign(player)
      barCount == bar[player]
      canBearOffNow == /\ ~(barCount > 0)
                       /\ IF player = 1 THEN \A i \in 0..17 : ~(board[i] > 0)
                          ELSE \A i \in 6..23 : ~(board[i] < 0)
      furthest == IF player = 1
                    THEN IF \E i \in Points : board[i] > 0
                           THEN CHOOSE i \in Points :
                                  board[i] > 0 /\ \A k \in 0..(i - 1) : ~(board[k] > 0)
                           ELSE -1
                    ELSE IF \E i \in Points : board[i] < 0
                           THEN CHOOSE i \in Points :
                                  board[i] < 0 /\ \A k \in (i + 1)..23 : ~(board[k] < 0)
                           ELSE -1
      Offered(die) ==
        IF from = BAR THEN
          LET entryPoint == IF player = 1 THEN 24 - die ELSE die - 1 IN
          IF entryPoint >= 0 /\ entryPoint <= 23 /\ board[entryPoint] * playerSign >= -1
            THEN {entryPoint} ELSE {}
        ELSE
          LET dest == IF player = 1 THEN from + die ELSE from - die IN
          (IF dest >= 0 /\ dest <= 23 /\ board[dest] * playerSign >= -1
             THEN {dest} ELSE {})
          \cup
          (IF /\ canBearOffNow
              /\ \/ (player = 1 /\ from >= 18 /\ dest >= 24
                     /\ (dest = 24 \/ furthest >= from))
                 \/ (player = 2 /\ from <= 5 /\ dest <= -1
                     /\ (dest = -1 \/ furthest <= from))
             THEN {OFF} ELSE {})
  IN
  IF barCount > 0 /\ from # BAR THEN {}
  ELSE UNION {Offered(movesLeft[n]) : n \in 1..Len(movesLeft)}

handleMoveDie2(from, to, currentMovesLeft, playerNumber) ==
  LET Dest(die) == IF playerNumber = 1 THEN from + die ELSE from - die
      overshooting == {die \in Range(currentMovesLeft) :
                         \/ (playerNumber = 1 /\ Dest(die) >= 24)
                         \/ (playerNumber = 2 /\ Dest(die) <= -1)}
      leading == IF from = BAR
                   THEN {die \in Range(currentMovesLeft) :
                           (IF playerNumber = 1 THEN 24 - die ELSE die - 1) = to}
                 ELSE IF to = OFF THEN overshooting
                 ELSE {die \in Range(currentMovesLeft) : Dest(die) = to}
      dieValue == IF from = BAR THEN (IF playerNumber = 1 THEN 24 - to ELSE to + 1)
                  ELSE IF to = OFF THEN FirstDie(currentMovesLeft, overshooting)
                  ELSE IF playerNumber = 1 THEN to - from ELSE from - to
  IN
  IF dieValue = 0 \/ IndexOf(currentMovesLeft, dieValue) = 0
    THEN IF leading # {} THEN FirstDie(currentMovesLeft, leading) ELSE dieValue
    ELSE dieValue

\* applyLocalMove: the preview after one move
applyLocalMove(board, bar, borneOff, movesLeft, from, to, dieValue, player) ==
  LET playerSign == Sign(player)
      bar1 == IF from = BAR THEN [bar EXCEPT ![player] = @ - 1] ELSE bar
      board1 == IF from = BAR THEN board ELSE [board EXCEPT ![from] = @ - playerSign]
      hit == to # OFF /\ board1[to] * playerSign = -1
      board2 == IF hit THEN [board1 EXCEPT ![to] = 0] ELSE board1
      dieIndex == IndexOf(movesLeft, dieValue)
  IN
  [ board |-> IF to = OFF THEN board2 ELSE [board2 EXCEPT ![to] = @ + playerSign],
    bar |-> IF hit THEN [bar1 EXCEPT ![Other(player)] = @ + 1] ELSE bar1,
    borneOff |-> IF to = OFF THEN [borneOff EXCEPT ![player] = @ + 1] ELSE borneOff,
    movesLeft |-> IF dieIndex # 0 THEN Splice(movesLeft, dieIndex) ELSE movesLeft ]

\* the four preview states of the page, set together: <<>> when null
PreviewOf(g) ==
  [board |-> g.board, bar |-> g.bar, borneOff |-> g.borne_off, movesLeft |-> g.moves_left]

\* `previewBoard || game.board`, ... as every handler and the render read them
Current(c) == IF c.preview # <<>> THEN c.preview[1] ELSE PreviewOf(c.game)

\* handleUndo's replay of a list of pending moves from the page's game
RECURSIVE Replay(_, _, _)
Replay(state, moves, player) ==
  IF moves = <<>> THEN state
  ELSE Replay(applyLocalMove(state.board, state.bar, state.borneOff, state.movesLeft,
                             moves[1].from, moves[1].to, moves[1].dieValue, player),
              Tail(moves), player)

\* the page after fetchGame: no preview, nothing pending, no call in flight
\* (call: "none", or the call whose response the page awaits; left: the
\* pending moves handleEndTurn has still to send; reply: the error of the
\* awaited response, Ok for none; seed: data.game of a roll's response;
\* issued: history, the preview when the handleEndTurn in progress was
\* called, kept while its moves are being accepted)
Page(g) ==
  [ game |-> g,
    preview |-> <<>>,
    pendingMoves |-> <<>>,
    call |-> "none",
    left |-> <<>>,
    reply |-> Ok,
    seed |-> <<>>,
    lastStarter |-> 1,
    error |-> "",
    issued |-> <<>> ]

\* the row of a new room, or one of the mid-game rows; both pages loaded,
\* no handler running
InitFrom(rows) ==
  /\ \/ db = NewGame /\ steps = OpeningCost
     \/ db \in rows /\ steps = 0
  /\ last = "create"
  /\ rolls = 0
  /\ cl = [p \in Players |-> Page(db)]
  /\ inbox = [p \in Players |-> <<>>]
  /\ hs = <<>>
  /\ raced = FALSE
  /\ wire = [p \in Players |-> [seqs |-> <<>>, seen |-> {}]]

Init == InitFrom({RaceGame, BarGame, BarTwoGame})

Next ==
  \/ \E p \in Players : Roll(p)
  \/ \E p \in Players : Move(p)
  \/ \E p \in Players : EndTurn(p)
  \/ \E p \in Players : Unknown(p)
  \/ Reset

Spec == Init /\ [][Next]_vars

TypeOK ==
  /\ db.current_turn \in Players
  /\ db.winner \in {NoWinner, 1, 2}
  /\ Len(db.dice) \in {0, 2}
  /\ Len(db.moves_left) <= 4

\* ------------------------------------------------- page.tsx: the two pages
\* Each page sends its requests to the route, which handles one request at a
\* time here; a response and the realtime payloads of the same write reach
\* the page in either order.  A page awaits one response at a time.
Notify(row) == [q \in Players |-> Append(inbox[q], row)]

\* a write waits while a page is MaxLag payloads behind
Delivered == \A q \in Players : Len(inbox[q]) < MaxLag

\* the route handles the request with response r: the row, the history and
\* the UPDATE payload to both pages
Handled(r, a) ==
  /\ r.error = Ok => steps < MaxPageSteps /\ Delivered
  /\ db' = Merge(db, r.update)
  /\ last' = Mark(r, a)
  /\ rolls' = NextRolls(db, db', a = "roll" /\ r.error = Ok)
  /\ steps' = Charge(r)
  /\ inbox' = IF r.error = Ok THEN Notify(db') ELSE inbox

isMyTurn(c, p) == c.game.current_turn = p /\ c.game.winner = NoWinner

isSubmitting(c) == c.call \in {"move", "endTurn"}

\* the render's canEndTurn, given isMyTurn and dice
canEndTurn(c, p) ==
  LET cur == Current(c) IN
  \/ Len(cur.movesLeft) = 0
  \/ ~hasAnyValidMoves(cur.board, cur.bar, cur.borneOff, cur.movesLeft, p)

\* the render's needsToRoll
needsToRoll(c, p) ==
  /\ isMyTurn(c, p)
  /\ c.game.dice = <<>> \/ Len(c.game.moves_left) = 0

\* the dice panel shows the dice when the page's copy has any, and the roll
\* button otherwise when needsToRoll
RollOffered(c, p) ==
  /\ c.game.dice = <<>>
  /\ needsToRoll(c, p)

\* the roll button and handleRollDice up to the fetch
PageRoll(p) ==
  LET c == cl[p] IN
  /\ c.call = "none"
  /\ RollOffered(c, p)
  /\ \E d \in DicePairs :
       LET r == POST(db, Req("roll", p, 0, 0, 0), d) IN
       /\ Handled(r, "roll")
       /\ cl' = [cl EXCEPT ![p] =
                   [c EXCEPT !.call = "roll",
                             !.reply = r.error,
                             !.seed = IF r.error = Ok THEN <<PreviewOf(db')>> ELSE <<>>]]
  /\ UNCHANGED <<raceVars, wire>>

\* handleRollDice after the fetch
PageRollReply(p) ==
  LET c == cl[p] IN
  /\ c.call = "roll"
  /\ cl' = [cl EXCEPT ![p] =
              IF c.reply = Ok
                THEN [c EXCEPT !.preview = c.seed, !.pendingMoves = <<>>,
                               !.call = "none", !.seed = <<>>]
                ELSE [c EXCEPT !.error = c.reply, !.call = "none", !.reply = Ok]]
  /\ UNCHANGED <<db, last, rolls, steps, inbox, raceVars, wire>>

\* handlePointClick on an origin, then on an offered destination (or
\* handleBearOffClick), and handleMove
PageMove(p) ==
  LET c == cl[p]
      cur == Current(c)
  IN
  /\ isMyTurn(c, p)
  /\ c.game.dice # <<>>
  /\ Len(cur.movesLeft) > 0
  /\ \E from \in Points \cup {BAR} :
       /\ IF from = BAR THEN cur.bar[p] > 0
          ELSE cur.board[from] * Sign(p) > 0 /\ cur.bar[p] = 0
       /\ \E to \in calculateValidMoves(from, cur.board, cur.bar, cur.borneOff,
                                        cur.movesLeft, p) :
            LET dieValue == handleMoveDie(from, to, cur.movesLeft, p) IN
            /\ dieValue # 0
            /\ cl' = [cl EXCEPT ![p] =
                        [c EXCEPT
                           !.preview = <<applyLocalMove(cur.board, cur.bar, cur.borneOff,
                                                        cur.movesLeft, from, to, dieValue, p)>>,
                           !.pendingMoves = Append(@, [from |-> from, to |-> to,
                                                       dieValue |-> dieValue])]]
  /\ UNCHANGED <<db, last, rolls, steps, inbox, raceVars, wire>>

\* the Undo button and handleUndo
PageUndo(p) ==
  LET c == cl[p] IN
  /\ isMyTurn(c, p)
  /\ c.game.dice # <<>>
  /\ Len(c.pendingMoves) > 0
  /\ ~isSubmitting(c)
  /\ LET movesToReplay == SubSeq(c.pendingMoves, 1, Len(c.pendingMoves) - 1) IN
     cl' = [cl EXCEPT ![p] =
              [c EXCEPT !.preview = <<Replay(PreviewOf(c.game), movesToReplay, p)>>,
                        !.pendingMoves = movesToReplay]]
  /\ UNCHANGED <<db, last, rolls, steps, inbox, raceVars, wire>>

\* handleEndTurn's next fetch: the first of the moves still to send, or
\* endTurn after the last
SendNext(p, c, moves) ==
  LET req == IF moves # <<>>
               THEN Req("move", p, moves[1].from, moves[1].to, moves[1].dieValue)
               ELSE Req("endTurn", p, 0, 0, 0)
      r == POST(db, req, <<>>)
  IN
  /\ Handled(r, req.action)
  /\ cl' = [cl EXCEPT ![p] =
              [c EXCEPT !.call = req.action,
                        !.reply = r.error,
                        !.left = IF moves # <<>> THEN Tail(moves) ELSE <<>>,
                        !.issued = IF moves # <<>> /\ r.error = Ok
                                     THEN c.issued ELSE <<>>]]

\* the Confirm Moves / End Turn button and handleEndTurn up to its first fetch
PageConfirm(p) ==
  LET c == cl[p] IN
  /\ c.call = "none"
  /\ isMyTurn(c, p)
  /\ c.game.dice # <<>>
  /\ Len(c.pendingMoves) > 0 \/ canEndTurn(c, p)
  /\ SendNext(p, [c EXCEPT !.issued = c.preview], c.pendingMoves)
  /\ UNCHANGED <<raceVars, wire>>

\* mutant of PageConfirmReply: an error clears the pending moves and the
\* preview as a success does
PageConfirmReply_ClearsOnError(p) ==
  LET c == cl[p] IN
  /\ isSubmitting(c)
  /\ IF c.reply # Ok
       THEN /\ cl' = [cl EXCEPT ![p] =
                        [c EXCEPT !.error = c.reply, !.call = "none",
                                  !.reply = Ok, !.left = <<>>, !.issued = <<>>,
                                  !.preview = <<>>, !.pendingMoves = <<>>]]
            /\ UNCHANGED <<db, last, rolls, steps, inbox>>
     ELSE IF c.call = "endTurn"
       THEN /\ cl' = [cl EXCEPT ![p] =
                        [c EXCEPT !.preview = <<>>, !.pendingMoves = <<>>,
                                  !.call = "none", !.issued = <<>>]]
            /\ UNCHANGED <<db, last, rolls, steps, inbox>>
     ELSE SendNext(p, c, c.left)
  /\ UNCHANGED <<raceVars, wire>>

\* handleEndTurn after a fetch: throw on an error, else the next fetch, and
\* after endTurn's response the preview is cleared
PageConfirmReply(p) ==
  LET c == cl[p] IN
  /\ isSubmitting(c)
  /\ IF c.reply # Ok
       THEN /\ cl' = [cl EXCEPT ![p] =
                        [c EXCEPT !.error = c.reply, !.call = "none",
                                  !.reply = Ok, !.left = <<>>, !.issued = <<>>]]
            /\ UNCHANGED <<db, last, rolls, steps, inbox>>
     ELSE IF c.call = "endTurn"
       THEN /\ cl' = [cl EXCEPT ![p] =
                        [c EXCEPT !.preview = <<>>, !.pendingMoves = <<>>,
                                  !.call = "none", !.issued = <<>>]]
            /\ UNCHANGED <<db, last, rolls, steps, inbox>>
     ELSE SendNext(p, c, c.left)
  /\ UNCHANGED <<raceVars, wire>>

\* handleEndTurn's catch when the awaited fetch rejects: the request was
\* handled by the route, its response never reaches the page
FetchFailed == "Failed to fetch"

PageConfirmFails(p) ==
  LET c == cl[p] IN
  /\ isSubmitting(c)
  /\ cl' = [cl EXCEPT ![p] =
              [c EXCEPT !.error = FetchFailed, !.call = "none",
                        !.reply = Ok, !.left = <<>>, !.issued = <<>>]]
  /\ UNCHANGED <<db, last, rolls, steps, inbox, raceVars, wire>>

\* the PLAY AGAIN button and handleResetGame
PageReset(p) ==
  LET c == cl[p]
      nextStarter == IF c.lastStarter = 1 THEN 2 ELSE 1
  IN
  /\ c.game.winner # NoWinner
  /\ steps + OpeningCost < MaxPageSteps
  /\ Delivered
  /\ db' = Merge(db, ResetUpdate(nextStarter))
  /\ last' = "reset"
  /\ rolls' = 0
  /\ steps' = steps + OpeningCost + 1
  /\ inbox' = Notify(db')
  /\ cl' = [cl EXCEPT ![p] =
              [c EXCEPT !.lastStarter = nextStarter, !.preview = <<>>,
                        !.pendingMoves = <<>>]]
  /\ UNCHANGED <<raceVars, wire>>

\* the postgres_changes handler on the next UPDATE payload
PageUpdate(p) ==
  LET c == cl[p] IN
  /\ inbox[p] # <<>>
  /\ LET newGame == Head(inbox[p]) IN
     cl' = [cl EXCEPT ![p] =
              [c EXCEPT !.game = newGame,
                        !.preview = IF p # newGame.current_turn THEN <<>> ELSE @,
                        !.pendingMoves = IF p # newGame.current_turn THEN <<>> ELSE @]]
  /\ inbox' = [inbox EXCEPT ![p] = Tail(@)]
  /\ UNCHANGED <<db, last, rolls, steps, raceVars, wire>>

NextClient ==
  \/ \E p \in Players : PageRoll(p)
  \/ \E p \in Players : PageRollReply(p)
  \/ \E p \in Players : PageMove(p)
  \/ \E p \in Players : PageUndo(p)
  \/ \E p \in Players : PageConfirm(p)
  \/ \E p \in Players : PageConfirmReply(p)
  \/ \E p \in Players : PageReset(p)
  \/ \E p \in Players : PageUpdate(p)

InitClient == InitFrom({RaceGame, BarGame, LastGame, LastGameTwo})

SpecClient == InitClient /\ [][NextClient]_vars

\* the pages when a fetch of handleEndTurn may reject
NextRetry ==
  \/ NextClient
  \/ \E p \in Players : PageConfirmFails(p)

SpecRetry == InitClient /\ [][NextRetry]_vars

\* ------------------------------------ moves/route.ts: handlers interleaved
\* A handler reads the row, decides on the row it read and writes its update
\* onto whatever the row then is; nothing orders the handlers of one room.
\* A request refused on the row it read writes nothing and is left out.  A
\* roll draws its dice after the read.
DiceOf(req) == IF req.action = "roll" THEN DicePairs ELSE {<<>>}

Remove(s, i) == [j \in 1..(Len(s) - 1) |-> IF j < i THEN s[j] ELSE s[j + 1]]

\* route.ts:264-274: the handler of req reads the row (whether the request
\* is refused does not depend on the dice)
ReadBy(req) ==
  /\ Len(hs) < MaxInFlight
  /\ \A d \in DiceOf(req) : POST(db, req, d).error = Ok
  /\ hs' = Append(hs, [req |-> req, gameState |-> db])
  /\ UNCHANGED <<db, last, rolls, steps, raced, clientVars>>

\* a request of player p, of any action, with the inputs of Move
Read(p) ==
  \/ ReadBy(Req("roll", p, 0, 0, 0))
  \/ ReadBy(Req("endTurn", p, 0, 0, 0))
  \/ \E f \in FromChoices(db, p), dv \in DieChoices(db) :
       \E t \in ToChoices(p, f, dv) : ReadBy(Req("move", p, f, t, dv))

\* the rest of the handler: the decision on gameState and the update
Write ==
  \E i \in 1..Len(hs) :
    \E d \in DiceOf(hs[i].req) :
      LET r == POST(hs[i].gameState, hs[i].req, d) IN
      /\ steps < MaxRaceSteps
      /\ db' = Merge(db, r.update)
      /\ last' = hs[i].req.action
      /\ rolls' = NextRolls(db, db', hs[i].req.action = "roll")
      /\ steps' = steps + 1
      /\ raced' = (raced \/ hs[i].gameState # db)
      /\ hs' = Remove(hs, i)
      /\ UNCHANGED clientVars

\* a handler that no other handler overtakes: its read and its write
ServeFor(req) ==
  \E d \in DiceOf(req) :
    LET r == POST(db, req, d) IN
    /\ r.error = Ok
    /\ steps < MaxRaceSteps
    /\ db' = Merge(db, r.update)
    /\ last' = req.action
    /\ rolls' = NextRolls(db, db', req.action = "roll")
    /\ steps' = steps + 1
    /\ UNCHANGED <<clientVars, raceVars>>

Serve(p) ==
  \/ ServeFor(Req("roll", p, 0, 0, 0))
  \/ ServeFor(Req("endTurn", p, 0, 0, 0))
  \/ \E f \in FromChoices(db, p), dv \in DieChoices(db) :
       \E t \in ToChoices(p, f, dv) : ServeFor(Req("move", p, f, t, dv))

NextConc ==
  \/ \E p \in Players : Read(p)
  \/ Write
  \/ \E p \in Players : Serve(p)
  \/ Reset

InitConc == InitFrom({RaceGame})

SpecConc == InitConc /\ [][NextConc]_vars

\* ----------------------------------- page.tsx: the notification channel
\* The route writes the row and the UPDATE payload of each write is sent to
\* both pages.  A payload on its way is handled by the page's
\* postgres_changes handler or never arrives, and payloads on their way are
\* handled in any order.  The pages send nothing themselves here.
PublishFor(req) ==
  \E d \in DiceOf(req) :
    LET r == POST(db, req, d) IN
    /\ r.error = Ok
    /\ steps < MaxWrites
    /\ \A q \in Players : Len(inbox[q]) < MaxInTransit
    /\ db' = Merge(db, r.update)
    /\ last' = req.action
    /\ rolls' = NextRolls(db, db', req.action = "roll")
    /\ steps' = steps + 1
    /\ inbox' = Notify(db')
    /\ wire' = [q \in Players |-> [wire[q] EXCEPT !.seqs = Append(@, steps')]]
    /\ UNCHANGED <<cl, raceVars>>

\* the route accepts a request of player p and writes
Publish(p) ==
  \/ PublishFor(Req("roll", p, 0, 0, 0))
  \/ PublishFor(Req("endTurn", p, 0, 0, 0))
  \/ \E f \in FromChoices(db, p), dv \in DieChoices(db) :
       \E t \in ToChoices(p, f, dv) : PublishFor(Req("move", p, f, t, dv))

\* the postgres_changes handler of page p runs on payload k of those on
\* their way to it
Deliver(p) ==
  \E k \in 1..Len(inbox[p]) :
    LET c == cl[p]
        newGame == inbox[p][k]
    IN
    /\ cl' = [cl EXCEPT ![p] =
                [c EXCEPT !.game = newGame,
                          !.preview = IF p # newGame.current_turn THEN <<>> ELSE @,
                          !.pendingMoves = IF p # newGame.current_turn THEN <<>> ELSE @]]
    /\ inbox' = [inbox EXCEPT ![p] = Remove(@, k)]
    /\ wire' = [wire EXCEPT ![p] = [seqs |-> Remove(@.seqs, k),
                                    seen |-> @.seen \cup {@.seqs[k]}]]
    /\ UNCHANGED <<db, last, rolls, steps, raceVars>>

\* payload k on its way to page p never arrives
Lose(p) ==
  \E k \in 1..Len(inbox[p]) :
    /\ inbox' = [inbox EXCEPT ![p] = Remove(@, k)]
    /\ wire' = [wire EXCEPT ![p] = [@ EXCEPT !.seqs = Remove(@, k)]]
    /\ UNCHANGED <<db, last, rolls, steps, cl, raceVars>>

NextNotify ==
  \/ \E p \in Players : Publish(p)
  \/ \E p \in Players : Deliver(p)
  \/ \E p \in Players : Lose(p)

InitNotify == InitFrom({RaceGame})

SpecNotify == InitNotify /\ [][NextNotify]_vars

\* ================================================================ claims
Conserved(g) ==
  \A p \in Players : Count(g.board, p) + g.bar[p] + g.borne_off[p] = NumCheckers

\* a step in which a request wrote the row
Wrote(a) == steps' # steps /\ last' = a

\* the specification's hasAnyLegalMove: some token, some origin (a point or
\* the bar) and some destination (a point or off) make a legal move
LegalMoveExists(g, movesLeft, p) ==
  \E k \in 1..Len(movesLeft), f \in Points \cup {BAR}, t \in ToValues :
    isValidMove(g.board, g.bar, g.borne_off, f, t, movesLeft[k], p)

\* C1: in every reachable persisted record, for each player the checkers on
\* the 24 points plus the Bar count plus the BorneOff count equal 15.
C1_Conservation == Conserved(db)

\* the pending moves sent in order, each handled on the row the one before
\* left: every one is accepted
RECURSIVE SubmitInOrder(_, _, _)
SubmitInOrder(row, moves, p) ==
  IF moves = <<>> THEN TRUE
  ELSE LET r == POST(row, Req("move", p, moves[1].from, moves[1].to, moves[1].dieValue), <<>>)
       IN r.error = Ok /\ SubmitInOrder(Merge(row, r.update), Tail(moves), p)

\* C2: when a page's preview is the authoritative row with the page's pending
\* moves applied to it (seeded after the roll, then only local moves), the
\* route accepts every pending move, sent in order with its recorded dieValue.
C2_PredictionAgreesWithAuthority ==
  \A p \in Players :
    LET c == cl[p] IN
    (/\ db.current_turn = p
     /\ db.dice # <<>>
     /\ c.call = "none"
     /\ c.preview # <<>>
     /\ c.preview[1] = Replay(PreviewOf(db), c.pendingMoves, p))
    => SubmitInOrder(db, c.pendingMoves, p)

\* C3: an end-turn action passes Turn only when MovesLeft is empty or no
\* remaining token has a legal move.
C3_EndTurnGuard ==
  [][Wrote("endTurn") =>
       (Len(db.moves_left) = 0
        \/ ~LegalMoveExists(db, db.moves_left, db.current_turn))]_vars

\* C4: within one turn at most one roll of the acting player is accepted.
C4_OneRollPerTurn == rolls <= 1

\* C5: once Winner is set, every roll, move and endTurn request is rejected
\* and leaves the record as it is; only a reset changes the record.
C5_GameOverAbsorbing ==
  [](db.winner # NoWinner =>
       \A req \in ReqChoices(db) : \A r \in Results(db, req) :
         r.error \in Errors /\ Merge(db, r.update) = db)
  /\ [][db.winner # NoWinner /\ db' # db => last' = "reset"]_vars

C5_Witness ==
  /\ db.winner # NoWinner
  /\ last = "move"
  /\ \E d \in DicePairs :
       POST(db, Req("roll", db.current_turn, 0, 0, 0), d).error = GameOver

\* C6: Winner = p implies BorneOff[p] = 15, and no Winner implies both
\* BorneOff counts are below 15; so a move sets Winner to p exactly when it
\* brings p's BorneOff to 15.
C6_WinnerCorrect ==
  /\ \A p \in Players : db.winner = p => db.borne_off[p] = NumCheckers
  /\ db.winner = NoWinner => \A p \in Players : db.borne_off[p] < NumCheckers

C6_Witness ==
  /\ last = "move"
  /\ \E p \in Players : db.winner = p /\ db.borne_off[p] = NumCheckers

\* C7: an accepted roll records the dice; if no token of expand(dice) has a
\* legal move, MovesLeft becomes empty and Turn passes to the opponent;
\* otherwise MovesLeft = expand(dice) and Turn stays.
C7_ForcedPassOnRoll ==
  [][Wrote("roll") =>
       /\ db'.dice \in DicePairs
       /\ IF ~LegalMoveExists(db, getMovesFromDice(db'.dice), db.current_turn)
            THEN /\ db'.moves_left = <<>>
                 /\ db'.current_turn = Other(db.current_turn)
            ELSE /\ db'.moves_left = getMovesFromDice(db'.dice)
                 /\ db'.current_turn = db.current_turn]_vars

C7_Witness ==
  /\ last = "roll"
  /\ db.dice # <<>>
  /\ db.moves_left = <<>>
  /\ ~LegalMoveExists(db, getMovesFromDice(db.dice), Other(db.current_turn))

\* C8: every roll, move and endTurn request whose player is not the
\* record's Turn is answered NotYourTurn, whatever else it holds and
\* whatever the dice and winner state.
C8_Authorization ==
  \A req \in ReqChoices(db) :
    req.player # db.current_turn =>
      \A r \in Results(db, req) : r.error = NotYourTurn

\* a finished game, and a request of the player not at turn
C8_Witness ==
  /\ db.winner # NoWinner
  /\ \A r \in Results(db, Req("endTurn", Other(db.current_turn), 0, 0, 0)) :
       r.error = NotYourTurn

\* C9: a rejected request leaves every field of the record as it was.
C9_RejectionKeepsState ==
  \A req \in ReqChoices(db) : \A r \in Results(db, req) :
    r.error \in Errors => Merge(db, r.update) = db

\* a row in which a move with a legal shape names a die that is no token
C9_Witness ==
  \E req \in MoveChoices(db, db.current_turn) :
    POST(db, req, <<>>).error = DieUnavailable

\* MovesLeft against the rest of the record: tokens without Dice, or a token
\* that is not a value of the current Dice
MovesLeftInconsistent(g) ==
  \/ g.moves_left # <<>> /\ g.dice = <<>>
  \/ g.dice # <<>> /\ \E n \in 1..Len(g.moves_left) : g.moves_left[n] \notin Range(g.dice)

\* C10: handlers of one room are not serialized; a record whose MovesLeft is
\* inconsistent with its Dice is reached (C10_Witness), and it is reached
\* only when some handler has written after the row it read had changed.
C10_InconsistencyNeedsInterleaving == MovesLeftInconsistent(db) => raced

C10_Witness ==
  /\ raced
  /\ db.dice # <<>>
  /\ \E n \in 1..Len(db.moves_left) : db.moves_left[n] \notin Range(db.dice)

\* the positions of a row
Position(g) == <<g.board, g.bar, g.borne_off>>

\* `new` is `old` with one move applied that isValidMove accepts for old
OneMoveApart(old, new) ==
  \E p \in Players, f \in Points \cup {BAR, -1}, dv \in Die :
    \E t \in ToChoices(p, f, dv) :
      /\ isValidMove(old.board, old.bar, old.borne_off, f, t, dv, p)
      /\ LET r == executeMove(old.board, old.bar, old.borne_off, f, t, p)
         IN <<r.board, r.bar, r.borneOff>> = Position(new)

\* C11: every change of the persisted Board/Bar/BorneOff is a reset or one
\* accepted move applied to the persisted positions just before it, also
\* when the handlers of the room overlap.
C11_AcceptedMovesFinal ==
  [][Position(db') # Position(db) => (last' = "reset" \/ OneMoveApart(db, db'))]_vars

\* a step of handleEndTurn of p's page: the click with its first fetch, a
\* response followed by the next fetch, or the return
ConfirmStep(p) ==
  \/ cl[p].call = "none" /\ isSubmitting(cl'[p])
  \/ isSubmitting(cl[p]) /\ (cl'[p].call # cl[p].call \/ cl'[p].left # cl[p].left
                             \/ cl'[p].reply # cl[p].reply)

\* the step in which handleEndTurn returns on a rejected entry
ConfirmAborts(p) ==
  isSubmitting(cl[p]) /\ cl[p].reply # Ok /\ cl'[p].call = "none"

\* C12: when the route rejects a pending move during confirm, the page sends
\* nothing further (no later entry, no endTurn), shows the error, and the
\* pending moves and the preview stay what they were: no step of
\* handleEndTurn but the return after endTurn's acceptance changes them.
C12_ConfirmAbortsOnRejection ==
  [][\A p \in Players :
       /\ ConfirmAborts(p) =>
            /\ cl'[p].error = cl[p].reply
            /\ cl'[p].left = <<>>
            /\ UNCHANGED <<db, steps, last, inbox>>
       /\ (ConfirmStep(p) /\ ~(cl[p].call = "endTurn" /\ cl[p].reply = Ok)) =>
            /\ cl'[p].pendingMoves = cl[p].pendingMoves
            /\ cl'[p].preview = cl[p].preview]_vars

C12_Witness ==
  \E p \in Players :
    /\ cl[p].call = "none"
    /\ cl[p].error = InvalidMove
    /\ Len(cl[p].pendingMoves) > 0
    /\ cl[p].preview # <<>>
    /\ cl[p].game.current_turn = p

\* the Undo button of p's page is shown and enabled
UndoEnabled(p) ==
  /\ isMyTurn(cl[p], p)
  /\ cl[p].game.dice # <<>>
  /\ Len(cl[p].pendingMoves) > 0
  /\ ~isSubmitting(cl[p])

\* what handleUndo leaves as the preview: the page's copy of the
\* authoritative row replayed through all pending moves but the last
Undone(p) ==
  Replay(PreviewOf(cl[p].game),
         SubSeq(cl[p].pendingMoves, 1, Len(cl[p].pendingMoves) - 1), p)

C13_UndoReplaysBaseline ==
  [][\A p \in Players :
       (UndoEnabled(p) /\ Len(cl'[p].pendingMoves) = Len(cl[p].pendingMoves) - 1
        /\ cl'[p].game = cl[p].game /\ cl'[p].call = cl[p].call)
       => /\ cl'[p].preview = <<Undone(p)>>
          /\ cl'[p].pendingMoves =
               SubSeq(cl[p].pendingMoves, 1, Len(cl[p].pendingMoves) - 1)]_vars


\* the events after which C14 expects an empty pending list
\* handleEndTurn of p ends with every request of the batch accepted
ConfirmSucceeds(p) ==
  cl[p].call = "endTurn" /\ cl[p].reply = Ok /\ cl'[p].call = "none"

\* handleUndo of p with a single pending move
UndoOfOnlyMove(p) ==
  /\ UndoEnabled(p)
  /\ Len(cl[p].pendingMoves) = 1
  /\ UNCHANGED <<db, steps, inbox>>
  /\ cl'[p].game = cl[p].game
  /\ cl'[p].call = cl[p].call
  /\ cl'[p].preview # cl[p].preview
  /\ Len(cl'[p].pendingMoves) <= 1

\* the UPDATE handler of p takes the next payload
Receives(p) == inbox[p] # <<>> /\ inbox'[p] = Tail(inbox[p])

\* p is delivered a row whose turn has left p
TurnLeaves(p) ==
  /\ Receives(p)
  /\ cl[p].game.current_turn = p
  /\ Head(inbox[p]).current_turn # p

\* handleResetGame of p has reset the room
ResetsRoom(p) == last' = "reset" /\ cl'[p].lastStarter # cl[p].lastStarter

\* p is delivered the row of a reset
ResetReaches(p) ==
  /\ Receives(p)
  /\ cl[p].game.winner # NoWinner
  /\ Head(inbox[p]).winner = NoWinner

\* C14: after a successful confirm, an undo of the only pending move, a
\* delivered change of turn away from the page's player, and a reset of the
\* room (on the page that reset it, and on the other page once the reset row
\* is delivered), the page's pending-move list is empty.
C14_PendingCleared ==
  [][\A p \in Players :
       (\/ ConfirmSucceeds(p)
        \/ UndoOfOnlyMove(p)
        \/ TurnLeaves(p)
        \/ ResetsRoom(p)
        \/ ResetReaches(p))
       => cl'[p].pendingMoves = <<>>]_vars


\* C15: on every reachable row, for either player and any die token,
\* hasValidMoves is true exactly when some origin (a point or the bar) and
\* some destination (a point or 'off') pass isValidMove with that token; with
\* no token left it is false.
C15_HasValidMovesExact ==
  \A p \in Players :
    /\ ~hasValidMoves(db.board, db.bar, db.borne_off, <<>>, p)
    /\ hasValidMoves(db.board, db.bar, db.borne_off, db.moves_left, p)
         <=> LegalMoveExists(db, db.moves_left, p)
    /\ \A d \in Die :
         hasValidMoves(db.board, db.bar, db.borne_off, <<d>>, p)
           <=> LegalMoveExists(db, <<d>>, p)

\* a row after a roll where one die of the roll has a legal move and some
\* die face has none
C15_Witness ==
  /\ last = "roll"
  /\ db.moves_left # <<>>
  /\ hasValidMoves(db.board, db.bar, db.borne_off, db.moves_left, db.current_turn)
  /\ \E d \in Die :
       ~hasValidMoves(db.board, db.bar, db.borne_off, <<d>>, db.current_turn)


\* bar entry with token movesLeft[k] passes isValidMove for some destination
BarEntryExists(g, movesLeft, p) ==
  \E k \in 1..Len(movesLeft), t \in ToValues :
    isValidMove(g.board, g.bar, g.borne_off, BAR, t, movesLeft[k], p)

\* C16: on every reachable row where a player has a checker on the bar, the
\* route accepts no move of that player whose origin is not the bar, and
\* hasValidMoves is true exactly when a bar entry is legal.
C16_BarPriority ==
  \A p \in Players :
    db.bar[p] > 0 =>
      /\ \A f \in Points \cup {-1}, dv \in Die, t \in ToValues :
           /\ ~isValidMove(db.board, db.bar, db.borne_off, f, t, dv, p)
           /\ POST(db, Req("move", p, f, t, dv), <<>>).error # Ok
      /\ \A d \in Die :
           hasValidMoves(db.board, db.bar, db.borne_off, <<d>>, p)
             <=> BarEntryExists(db, <<d>>, p)
      /\ hasValidMoves(db.board, db.bar, db.borne_off, db.moves_left, p)
           <=> BarEntryExists(db, db.moves_left, p)

\* the player on turn has rolled, has a checker on the bar, and a checker on
\* a point that could move with a rolled die were the bar empty
C16_Witness ==
  LET p == db.current_turn IN
  /\ last = "roll"
  /\ db.bar[p] > 0
  /\ \E k \in 1..Len(db.moves_left), f \in Points, t \in Points :
       isValidMove(db.board, [db.bar EXCEPT ![p] = 0], db.borne_off,
                   f, t, db.moves_left[k], p)


\* the point a checker enters from the bar with die d
EntryPoint(p, d) == IF p = 1 THEN d - 1 ELSE 24 - d

\* what the page offers for a bar checker with tokens movesLeft: each
\* highlighted destination with the die handleMove records for it
BarOffers(s, movesLeft, p) ==
  {<<t, handleMoveDie(BAR, t, movesLeft, p)>> :
     t \in calculateValidMoves(BAR, s.board, s.bar, s.borneOff, movesLeft, p)}

\* the bar entries isValidMove accepts in the same position with those tokens
BarAccepts(s, movesLeft, p) ==
  {x \in ToValues \X Range(movesLeft) :
     isValidMove(s.board, s.bar, s.borneOff, BAR, x[1], x[2], p)}

\* the same for the second revision of the page
BarOffers2(s, movesLeft, p) ==
  {<<t, handleMoveDie2(BAR, t, movesLeft, p)>> :
     t \in calculateValidMoves2(BAR, s.board, s.bar, s.borneOff, movesLeft, p)}

\* the route's side: for every die face d, isValidMove accepts from the bar
\* exactly the destination d-1 (Player 1) or 24-d (Player 2), and exactly when
\* that point holds fewer than two opposing checkers
RouteBarEntry(s, p) ==
  \A d \in Die, t \in ToValues :
    isValidMove(s.board, s.bar, s.borneOff, BAR, t, d, p)
      <=> (t = EntryPoint(p, d) /\ s.board[EntryPoint(p, d)] * Sign(p) > -2)

\* the first revision of the page offers, and records the die of, exactly the
\* bar entries isValidMove accepts
FirstCopyAgrees(s, p) ==
  /\ \A d \in Die : BarOffers(s, <<d>>, p) = BarAccepts(s, <<d>>, p)
  /\ BarOffers(s, s.movesLeft, p) = BarAccepts(s, s.movesLeft, p)

\* and so does the second revision
SecondCopyAgrees(s, p) ==
  /\ \A d \in Die : BarOffers2(s, <<d>>, p) = BarAccepts(s, <<d>>, p)
  /\ BarOffers2(s, s.movesLeft, p) = BarAccepts(s, s.movesLeft, p)

\* C17: in every position a page shows with a checker of its player on the
\* bar, the route's entry point is d-1 (Player 1) or 24-d (Player 2), rejected
\* exactly when it holds two or more opposing checkers, and the bar-entry
\* destinations and dice the client offers, in either copy of the page, are
\* exactly those isValidMove accepts.
C17_BarEntryAgrees ==
  \A p \in Players :
    LET s == Current(cl[p]) IN
    s.bar[p] > 0 =>
      RouteBarEntry(s, p) /\ FirstCopyAgrees(s, p) /\ SecondCopyAgrees(s, p)

\* the part of C17 that holds: the route and the first revision of the page
C17_FirstCopyAgrees ==
  \A p \in Players :
    LET s == Current(cl[p]) IN
    s.bar[p] > 0 => RouteBarEntry(s, p) /\ FirstCopyAgrees(s, p)

\* a page shows its player on the bar after a roll of two different dice, one
\* entering and one blocked
C17_Witness ==
  \E p \in Players :
    LET s == Current(cl[p]) IN
    /\ s.bar[p] > 0
    /\ isMyTurn(cl[p], p)
    /\ Len(s.movesLeft) = 2
    /\ BarOffers(s, <<s.movesLeft[1]>>, p) = {}
    /\ BarOffers(s, <<s.movesLeft[2]>>, p) # {}


\* point i holds a checker of p
Holds(board, i, p) == board[i] * Sign(p) > 0

\* the home quadrant of p
Home(p) == IF p = 1 THEN 18..23 ELSE 0..5

\* point j is strictly further from p's home than point i
FurtherFromHome(j, i, p) == IF p = 1 THEN j < i ELSE j > i

\* the bear-off rule as the specification words it, for a checker of p on
\* point f and die d
BearOffRule(g, f, d, p) ==
  /\ g.bar[p] = 0
  /\ \A i \in Points : Holds(g.board, i, p) => i \in Home(p)
  /\ \/ (IF p = 1 THEN f + d = 24 ELSE f - d = -1)
     \/ /\ (IF p = 1 THEN f + d > 24 ELSE f - d < -1)
        /\ ~\E j \in Points : Holds(g.board, j, p) /\ FurtherFromHome(j, f, p)

PointToPointRule(g, f, t, d, p) ==
  /\ InRange(f) /\ Holds(g.board, f, p)
  /\ t = (IF p = 1 THEN f + d ELSE f - d)
  /\ InRange(t)
  /\ g.board[t] * Sign(p) > -2

\* C19: on every reachable row, for a player with no checker on the bar,
\* every numeric origin, every point as destination and every die face,
\* isValidMove accepts the move exactly when the origin holds a checker of the
\* player, the destination is the origin plus (Player 1) or minus (Player 2)
\* the die, lies in 0..23 and holds fewer than two opposing checkers.
C19_PointToPoint ==
  \A p \in Players :
    db.bar[p] = 0 =>
      \A f \in Points \cup {-1, NumPoints}, t \in Points, d \in Die :
        isValidMove(db.board, db.bar, db.borne_off, f, t, d, p)
          <=> PointToPointRule(db, f, t, d, p)

\* the part of C19 that holds: origins that are points
C19_FromPoints ==
  \A p \in Players :
    db.bar[p] = 0 =>
      \A f \in Points, t \in Points, d \in Die :
        isValidMove(db.board, db.bar, db.borne_off, f, t, d, p)
          <=> PointToPointRule(db, f, t, d, p)

\* the origins of C20: numbers that are not a point holding a checker of p
NotOwnOrigins(g, p) ==
  {f \in Points \cup {-1, NumPoints} : ~(InRange(f) /\ Holds(g.board, f, p))}

\* C20: on every reachable row, a move request of the player on turn from a
\* numeric origin that is not a point holding one of its checkers is not
\* accepted, and is answered "Invalid move" once the dice are rolled.
C20_OriginMustHoldChecker ==
  LET p == db.current_turn IN
  \A f \in NotOwnOrigins(db, p), t \in ToValues, d \in Die :
    LET r == POST(db, Req("move", p, f, t, d), <<>>) IN
    /\ r.error # Ok
    /\ (db.winner = NoWinner /\ db.dice # <<>> /\ db.moves_left # <<>>)
         => r.error = InvalidMove

\* the part of C20 that holds: origins that are points
C20_PointOrigins ==
  LET p == db.current_turn IN
  \A f \in NotOwnOrigins(db, p) \cap Points, t \in ToValues, d \in Die :
    LET r == POST(db, Req("move", p, f, t, d), <<>>) IN
    /\ r.error # Ok
    /\ (db.winner = NoWinner /\ db.dice # <<>> /\ db.moves_left # <<>>)
         => r.error = InvalidMove


\* the row a move request of the player on turn leaves, and whether it was
\* accepted
MoveResult(f, t, dv) == POST(db, Req("move", db.current_turn, f, t, dv), <<>>)

\* the stacks of player q are the same on both boards
SameStacks(old, new, q) ==
  \A i \in Points : old[i] * Sign(q) > 0 => new[i] = old[i]

\* C21: on every reachable row, every move request of the player on turn that
\* the route accepts either lands on a point with exactly one opposing
\* checker, and then the opponent's bar grows by one, the point holds exactly
\* one checker of the mover and every other opposing stack is unchanged, or
\* lands elsewhere, and then the opponent's bar and all opposing stacks are
\* unchanged.
C21_Hit ==
  LET p == db.current_turn
      q == Other(db.current_turn)
  IN
  \A f \in Points \cup {BAR, -1}, dv \in Die :
    \A t \in ToChoices(p, f, dv) :
      LET r == MoveResult(f, t, dv)
          new == Merge(db, r.update)
      IN
      r.error = Ok =>
        IF t # OFF /\ db.board[t] * Sign(p) = -1
          THEN /\ new.bar[q] = db.bar[q] + 1
               /\ new.board[t] * Sign(p) = 1
               /\ SameStacks([db.board EXCEPT ![t] = 0], new.board, q)
          ELSE /\ new.bar[q] = db.bar[q]
               /\ SameStacks(db.board, new.board, q)

\* a move has hit a checker of Player 2, who had none on the bar in any
\* starting row
C21_Witness == last = "move" /\ db.bar[2] > 0


\* every move request the route accepts names a die that is in moves_left,
\* and the row it leaves has exactly one occurrence of that die removed and
\* the same dice
TokenTakenOnce ==
  \A f \in Points \cup {BAR, -1}, dv \in Die \cup {0} :
    \A t \in ToChoices(db.current_turn, f, dv) :
      LET r == MoveResult(f, t, dv)
          new == Merge(db, r.update)
      IN
      r.error = Ok =>
        /\ new.dice = db.dice
        /\ \E k \in 1..Len(db.moves_left) :
             db.moves_left[k] = dv /\ new.moves_left = Splice(db.moves_left, k)

\* the tokens of a roll are spent one per accepted move: a roll leaves at
\* most two tokens (four on doubles), a move takes one away, and no other
\* write leaves any
TokensPerRoll ==
  /\ Wrote("roll") =>
       Len(db'.moves_left) <= (IF db'.dice[1] = db'.dice[2] THEN 4 ELSE 2)
  /\ Wrote("move") =>
       Len(db.moves_left) > 0 /\ Len(db'.moves_left) = Len(db.moves_left) - 1
  /\ (steps' # steps /\ last' \notin {"roll", "move"}) => db'.moves_left = <<>>

\* C22: an accepted move removes exactly one occurrence of its dieValue from
\* moves_left and nothing else, a move whose dieValue is not in moves_left is
\* never accepted, and so at most two moves (four on doubles) are accepted
\* per roll.
C22_TokenConsumption == []TokenTakenOnce /\ [][TokensPerRoll]_vars

\* the fourth move of a roll of doubles has been accepted
C22_Witness ==
  /\ last = "move"
  /\ db.dice # <<>>
  /\ db.dice[1] = db.dice[2]
  /\ db.moves_left = <<>>
  /\ db.winner = NoWinner


\* the specification's isLegalMove, put together from its rules: bar
\* priority and bar entry, the origin holding the mover's checker, bearing
\* off, and the point-to-point rule
IsLegalMove(g, f, t, d, p) ==
  IF g.bar[p] > 0
    THEN f = BAR /\ t = EntryPoint(p, d) /\ g.board[EntryPoint(p, d)] * Sign(p) > -2
    ELSE /\ f # BAR
         /\ InRange(f) /\ Holds(g.board, f, p)
         /\ IF t = OFF THEN BearOffRule(g, f, d, p)
            ELSE PointToPointRule(g, f, t, d, p)

\* the outcome C23 states for a move request of the acting player
StatedOutcome(g, f, t, d, p) ==
  IF g.dice = <<>> \/ g.moves_left = <<>> THEN RollFirst
  ELSE IF ~IsLegalMove(g, f, t, d, p) THEN InvalidMove
  ELSE IF d \notin Range(g.moves_left) THEN DieUnavailable
  ELSE Ok

\* move requests of the player on turn from the origins in froms get the
\* stated outcome
OutcomesAsStated(froms) ==
  db.winner = NoWinner =>
    \A f \in froms, t \in ToValues, d \in Die :
      MoveResult(f, t, d).error = StatedOutcome(db, f, t, d, db.current_turn)

\* C23: on every reachable row without winner, a move request of the player
\* on turn is answered "Roll dice first" if there are no dice or no tokens
\* left, else "Invalid move" if the move is not legal, else "Die value not
\* available" if its die is not in moves_left, and else accepted.
C23_RejectionReasons == OutcomesAsStated(Points \cup {BAR, -1, NumPoints})

\* the part of C23 that holds: origins that are a point or the bar
C23_BoardOrigins == OutcomesAsStated(Points \cup {BAR})


\* the row C24 states for a reset with starting player s
OpeningRow(s) ==
  [ board |-> [i \in Points |->
                 CASE i = 0 -> 2 [] i = 11 -> 5 [] i = 16 -> 3 [] i = 18 -> 5
                   [] i = 23 -> -2 [] i = 12 -> -5 [] i = 7 -> -3 [] i = 5 -> -5
                   [] OTHER -> 0],
    bar |-> [p \in Players |-> 0],
    borne_off |-> [p \in Players |-> 0],
    dice |-> <<>>,
    moves_left |-> <<>>,
    current_turn |-> s,
    winner |-> NoWinner ]

\* C24: on every reachable row (any turn, with or without winner, mid-turn),
\* a reset with starting player 1 or 2 leaves the opening layout, empty bar
\* and borne_off, no dice, no moves_left, no winner and that player on turn;
\* its update names these seven columns only, so the player identifiers of
\* the row stay as they are.
C24_Reset ==
  \A s \in Players :
    /\ Merge(db, ResetUpdate(s)) = OpeningRow(s)
    /\ DOMAIN ResetUpdate(s) =
         {"board", "bar", "borne_off", "dice", "moves_left", "current_turn", "winner"}

\* a reset has handed the first turn to Player 2
C24_Witness == last = "reset" /\ db = OpeningRow(2)


\* C25: an accepted move leaves current_turn and dice as they were; an
\* accepted roll and an accepted endTurn leave board, bar, borne_off and
\* winner as they were; current_turn changes only in a roll that leaves no
\* token (the forced pass), in an endTurn or in a reset.
C25_Frame ==
  [][/\ Wrote("move") => UNCHANGED <<db.current_turn, db.dice>>
     /\ (Wrote("roll") \/ Wrote("endTurn")) =>
          UNCHANGED <<db.board, db.bar, db.borne_off, db.winner>>
     /\ db'.current_turn # db.current_turn =>
          \/ Wrote("roll") /\ db'.moves_left = <<>>
          \/ Wrote("endTurn")
          \/ Wrote("reset")]_vars

\* a turn was ended after a move of it had hit a checker of Player 2
C25_Witness == last = "endTurn" /\ db.bar[2] > 0 /\ db.current_turn = 2


\* page p appends a local move in this step; Appended(p) is the new entry
Appends(p) == Len(cl'[p].pendingMoves) = Len(cl[p].pendingMoves) + 1
Appended(p) == cl'[p].pendingMoves[Len(cl'[p].pendingMoves)]

\* C26: whenever a page appends a local move to its pending list, the die
\* recorded with it is in the moves_left the page showed before the move, and
\* isValidMove accepts the move with that die on the position the page showed.
C26_LocalDieValidated ==
  [][\A p \in Players :
       Appends(p) =>
         LET s == Current(cl[p])
             m == Appended(p)
         IN /\ m.dieValue \in Range(s.movesLeft)
            /\ isValidMove(s.board, s.bar, s.borneOff, m.from, m.to, m.dieValue, p)]_vars

\* the first part of C26, which holds: the recorded die is one of the tokens
C26_DieIsAToken ==
  [][\A p \in Players :
       Appends(p) => Appended(p).dieValue \in Range(Current(cl[p]).movesLeft)]_vars


\* the page's and the route's move detection give the same answer for the
\* position s, player p and tokens movesLeft
SameDetection(s, movesLeft, p) ==
  hasAnyValidMoves(s.board, s.bar, s.borneOff, movesLeft, p)
    <=> hasValidMoves(s.board, s.bar, s.borneOff, movesLeft, p)

\* C27: for the persisted row and for the position either page shows (at the
\* start of a turn or after local moves), for either player, for the tokens
\* of that position and for every single die face, the page's
\* hasAnyValidMoves and the route's hasValidMoves return the same boolean.
C27_SameForcedPassDetection ==
  \A s \in {PreviewOf(db)} \cup {Current(cl[q]) : q \in Players} :
    \A p \in Players :
      /\ SameDetection(s, s.movesLeft, p)
      /\ SameDetection(s, <<>>, p)
      /\ \A d \in Die : SameDetection(s, <<d>>, p)

\* a page shows, after a local move, tokens left and no move for them
C27_Witness ==
  \E p \in Players :
    LET s == Current(cl[p]) IN
    /\ Len(cl[p].pendingMoves) > 0
    /\ s.movesLeft # <<>>
    /\ ~hasAnyValidMoves(s.board, s.bar, s.borneOff, s.movesLeft, p)
    /\ \E d \in Die : hasAnyValidMoves(s.board, s.bar, s.borneOff, <<d>>, Other(p))


\* the destinations (points or 'off') isValidMove accepts from origin f with
\* some token of movesLeft
ServerDestinations(g, f, movesLeft, p) ==
  {t \in ToValues :
     \E k \in 1..Len(movesLeft) :
       isValidMove(g.board, g.bar, g.borne_off, f, t, movesLeft[k], p)}

\* C28: on every reachable row, for a player with no checker on the bar, for
\* every point holding a checker of that player, for the tokens of the row
\* and for every single die face, the destinations the page's
\* calculateValidMoves returns are exactly the destinations isValidMove
\* accepts with some token.
C28_OfferedEqualsLegal ==
  \A p \in Players :
    db.bar[p] = 0 =>
      \A f \in {i \in Points : Holds(db.board, i, p)} :
        /\ calculateValidMoves(f, db.board, db.bar, db.borne_off, db.moves_left, p)
             = ServerDestinations(db, f, db.moves_left, p)
        /\ \A d \in Die :
             calculateValidMoves(f, db.board, db.bar, db.borne_off, <<d>>, p)
               = ServerDestinations(db, f, <<d>>, p)

\* the player on turn has rolled two different dice, has no checker on the
\* bar, and from one of its points one die is offered a destination and the
\* other is not
C28_Witness ==
  LET p == db.current_turn IN
  /\ last = "roll"
  /\ db.bar[p] = 0
  /\ Len(db.moves_left) = 2
  /\ \E f \in Points :
       /\ Holds(db.board, f, p)
       /\ calculateValidMoves(f, db.board, db.bar, db.borne_off,
                              <<db.moves_left[1]>>, p) = {}
       /\ calculateValidMoves(f, db.board, db.bar, db.borne_off,
                              <<db.moves_left[2]>>, p) # {}


\* every payload sent to page p has been handled or has not arrived
Settled(p) == inbox[p] = <<>>

\* the handler of page p has run on the payload of the latest write
GotLatest(p) == steps \in wire[p].seen

\* C29: once every payload sent to a page has been handled or lost, a page
\* whose handler has run on the payload of the latest write holds a copy equal
\* to the persisted row, in whatever order the payloads were handled.
C29_Resynchronized ==
  \A p \in Players : (Settled(p) /\ GotLatest(p)) => cl[p].game = db

\* the part of C29 that holds: a page whose handler ran last on the payload of
\* the latest write holds the persisted row, whatever it missed before
C29_LatestHandledLast ==
  [][\A p \in Players :
       (wire'[p].seen # wire[p].seen /\ steps \in wire'[p].seen \ wire[p].seen)
         => cl'[p].game = db]_vars


\* C30: on every reachable row without winner, a roll request of the player
\* on turn is answered "Already rolled - make your moves" exactly when the
\* row has dice and moves_left is not empty, whether or not a remaining token
\* has a legal move, and is accepted in every other case, whatever the dice.
C30_AlreadyRolled ==
  db.winner = NoWinner =>
    \A d \in DicePairs :
      POST(db, Req("roll", db.current_turn, 0, 0, 0), d).error
        = (IF db.dice # <<>> /\ db.moves_left # <<>> THEN AlreadyRolled ELSE Ok)

\* the player on turn has dice and a token left that has no legal move
C30_Witness ==
  /\ db.winner = NoWinner
  /\ db.dice # <<>>
  /\ db.moves_left # <<>>
  /\ ~hasValidMoves(db.board, db.bar, db.borne_off, db.moves_left, db.current_turn)


\* handleEndTurn of p has had all its moves accepted and sends endTurn, which
\* is accepted: the confirm completes with no rejection, and the row is the
\* one its last submitted move left
ConfirmLands(p) ==
  /\ cl[p].call = "move"
  /\ cl'[p].call = "endTurn"
  /\ cl'[p].reply = Ok

C31_FirstConfirmLands ==
  [][\A p \in Players :
       ConfirmLands(p) /\ cl[p].error = "" =>
         /\ cl[p].issued # <<>>
         /\ Position(db) = <<cl[p].issued[1].board, cl[p].issued[1].bar,
                             cl[p].issued[1].borneOff>>]_vars


\* the route has accepted every move handleEndTurn of p had to submit, and
\* handleEndTurn sends its endTurn
AllAccepted(p) ==
  /\ cl[p].call = "move"
  /\ cl'[p].call = "endTurn"

\* handleEndTurn of p handles the response to its endTurn and returns
ConfirmEnds(p) ==
  /\ cl[p].call = "endTurn"
  /\ cl'[p].call = "none"

\* C32: a confirm whose submitted moves were all accepted gets no error from
\* the route for the endTurn that follows them, and a confirm that got no
\* error surfaces none and ends with pendingMoves empty.
C32_AcceptableConfirmSucceeds ==
  [][\A p \in Players :
       /\ AllAccepted(p) => cl'[p].reply = Ok
       /\ ConfirmEnds(p) /\ cl[p].reply = Ok =>
            /\ cl'[p].error = cl[p].error
            /\ cl'[p].pendingMoves = <<>>]_vars

\* the part of C32 that holds: the endTurn after the accepted moves is
\* accepted unless the last of them won the game or a reset took the turn
C32_UnlessWon ==
  [][\A p \in Players :
       /\ AllAccepted(p) /\ db.winner = NoWinner /\ db.current_turn = p =>
            cl'[p].reply = Ok
       /\ ConfirmEnds(p) /\ cl[p].reply = Ok =>
            /\ cl'[p].error = cl[p].error
            /\ cl'[p].pendingMoves = <<>>]_vars


\* C33: a page whose copy of the row has its player on turn, no winner and no
\* token left offers the roll, also when the copy still shows the dice of the
\* opponent whose roll passed the turn.
C33_RollOffered ==
  \A p \in Players :
    isMyTurn(cl[p], p) /\ Len(cl[p].game.moves_left) = 0 =>
      RollOffered(cl[p], p)


\* a preview holds 15 checkers of each player and no negative count
PreviewConserved(s) ==
  \A p \in Players :
    /\ Count(s.board, p) + s.bar[p] + s.borneOff[p] = NumCheckers
    /\ s.bar[p] >= 0
    /\ s.borneOff[p] >= 0

C34_ConservedBeforeAbort ==
  \A p \in Players :
    cl[p].preview # <<>> /\ cl[p].error = "" => PreviewConserved(cl[p].preview[1])


\* C35: whatever the interleaving of the reads and writes of the handlers of
\* a room, every persisted row holds exactly 15 checkers of each player on
\* its points, bar and borne-off counts together.
C35_ConservedUnderInterleaving ==
  \A p \in Players :
    Count(db.board, p) + db.bar[p] + db.borne_off[p] = NumCheckers


\* the specification's expand: a double gives four tokens of its value, two
\* different dice give one token each
expand(dice) ==
  IF dice[1] = dice[2] THEN [i \in 1..4 |-> dice[1]] ELSE <<dice[1], dice[2]>>

\* the number of entries of s equal to v
Occurrences(s, v) == Cardinality({i \in 1..Len(s) : s[i] = v})

\* every value occurs in a at most as often as in b
SubMultiset(a, b) ==
  \A v \in Range(a) \cup Range(b) : Occurrences(a, v) <= Occurrences(b, v)

\* C36: when every request is handled with no other in between, in every
\* reachable row moves_left is a sub-multiset of expand(dice) when the row has
\* dice, and is empty when it has none.
C36_DiceMovesLeftConsistent ==
  /\ db.dice # <<>> => SubMultiset(db.moves_left, expand(db.dice))
  /\ db.dice = <<>> => db.moves_left = <<>>

\* a double has been rolled and some but not all of its four tokens are used,
\* and the row is still consistent
C36_Witness ==
  /\ db.dice # <<>>
  /\ db.dice[1] = db.dice[2]
  /\ Len(db.moves_left) \in {1, 2, 3}
  /\ SubMultiset(db.moves_left, expand(db.dice))


\* on the confirm whose last move has just been accepted, the page holds no
\* more pending entries than the route has accepted moves in this turn: the
\* entries the completion is about to clear were all submitted
ClearsSubmittedOnly ==
  \A p \in Players :
    /\ cl[p].call = "move" /\ cl[p].left = <<>> /\ cl[p].reply = Ok
    /\ db.current_turn = p /\ db.dice # <<>>
    => Len(cl[p].pendingMoves) <= Len(expand(db.dice)) - Len(db.moves_left)

\* C37: while handleEndTurn of a page is in progress no entry is appended to
\* the page's pendingMoves, and a confirm whose moves were all accepted holds
\* only entries it submitted when it goes on to clear the list.
C37_NoPendingMoveDropped ==
  /\ [][\A p \in Players : isSubmitting(cl[p]) => ~Appends(p)]_vars
  /\ []ClearsSubmittedOnly

=============================================================================
